---------------------------- MODULE Spec2Model ----------------------------
(***************************************************************************)
(* Asynchronous job orchestration of greenops: the API Lambda (POST        *)
(* /analyze, GET /jobs/{id}), the SQS work queue, the worker Lambda and    *)
(* the job record in DynamoDB.                                             *)
(*                                                                         *)
(* One job is followed from its creation.  Every DynamoDB call (GetItem,   *)
(* PutItem, UpdateItem) is one atomic step; the Go code between two calls  *)
(* is local to the Lambda invocation and is folded into the step of the    *)
(* call that follows it.  Store and network calls are taken to succeed,    *)
(* except CreateJob, SendMessage and UpdateJobStatus in the Submitter,     *)
(* whose failures its Handler answers or skips explicitly, and the         *)
(* serialization of a result in UpdateJobProgress.                         *)
(***************************************************************************)
EXTENDS Integers, Sequences, FiniteSets, TLC

\* ------------------------------------------------------------------------
\* Bounds of the model
\* ------------------------------------------------------------------------
MaxItems == 2          \* largest number of payloads in one request
MaxRedeliveries == 1   \* duplicate deliveries the queue makes in one run
maxPollRetry == 4      \* the CLI's -poll-max: polling attempts of the client

Items == 0 .. (MaxItems - 1)
Deliveries == 1 .. (1 + MaxRedeliveries)
WorkerIds == Items \X Deliveries

\* ------------------------------------------------------------------------
\* pkg/jobs.go: JobStatus
\* ------------------------------------------------------------------------
JobStatusPending == "pending"
JobStatusProcessing == "processing"
JobStatusCompleted == "completed"
JobStatusFailed == "failed"
Terminal == {JobStatusCompleted, JobStatusFailed}

VARIABLES
    job,        \* the job record in the jobs table (JobInfo), or NoJob
    req,        \* body of the POST /analyze request being handled
    sub,        \* the Submitter: position in Handler, loop index, response
    queue,      \* messages in the SQS queue that were not delivered yet
    delivered,  \* messages the queue has delivered at least once
    worker,     \* worker Lambda invocations, one per delivery of a message
    dups,       \* duplicate deliveries made so far
    api,        \* the GET /jobs/{id} request in progress and its response
    early,      \* history: an outcome was recorded before the Submitter
                \* wrote Processing
    cli,        \* the CLI's pollForJobResults: position, loop variables,
                \* what it returned and what its polls have observed
    inv         \* one invocation of the worker Handler seen from inside: its
                \* position, its goroutine and its local variables

vars == <<job, req, sub, queue, delivered, worker, dups, api, early, cli, inv>>

NoJob == [exists |-> FALSE]
NoReq == [valid |-> FALSE, instances |-> 0, s3_buckets |-> 0, rds_instances |-> 0]

\* Bodies of POST /analyze: the number of payloads of each type.
Requests ==
    {r \in [valid : BOOLEAN, instances : 0 .. MaxItems,
            s3_buckets : 0 .. MaxItems, rds_instances : 0 .. MaxItems] :
        /\ r.instances + r.s3_buckets + r.rds_instances <= MaxItems
        /\ (~r.valid => r.instances + r.s3_buckets + r.rds_instances = 0)}

TotalResources(r) == r.instances + r.s3_buckets + r.rds_instances

\* The item_type Handler gives the payload it numbers k: EC2 first, then S3,
\* then RDS, with itemIndex advanced by the size of each group.
ItemTypeOf(r, k) ==
    IF k < r.instances THEN "ec2"
    ELSE IF k < r.instances + r.s3_buckets THEN "s3"
    ELSE "rds"

\* The job id CreateJob draws with uuid.New(): one job is followed, so one id
\* stands for whichever value is drawn.
NewJobId == "job-1"

WorkItem_perGroup(r, k) ==
    [job_id |-> NewJobId,
     item_index |-> IF k < r.instances THEN k
                    ELSE IF k < r.instances + r.s3_buckets THEN k - r.instances
                    ELSE k - r.instances - r.s3_buckets,
     item_type |-> ItemTypeOf(r, k)]

\* The message QueueWorkItem sends for payload k of the request.
WorkItem(r, k) ==
    [job_id |-> NewJobId, item_index |-> k, item_type |-> ItemTypeOf(r, k)]

\* ------------------------------------------------------------------------
\* pkg/jobs.go: operations on the job record
\* ------------------------------------------------------------------------

CreateJob_processing(itemCount, w) ==
    [exists |-> TRUE,
     job_id |-> NewJobId,
     status |-> JobStatusProcessing,
     total_items |-> itemCount,
     completed_items |-> 0,
     failed_items |-> 0,
     results |-> << >>,
     hasResults |-> w,
     completed_at |-> 0]

\* CreateJob: PutItem of a fresh record.  Results is tagged
\* `dynamodbav:"results,omitempty"` and holds an empty list: whether the item
\* that is put carries a results attribute is the marshaller's choice (w).
\* completed_at is left 0.
CreateJob(itemCount, w) ==
    [exists |-> TRUE,
     job_id |-> NewJobId,
     status |-> JobStatusPending,
     total_items |-> itemCount,
     completed_items |-> 0,
     failed_items |-> 0,
     results |-> << >>,
     hasResults |-> w,
     completed_at |-> 0]

\* The time.Now() of a status write, as far as completed_at tells it: 1 for
\* the first write that stamps the record, 2 for every later one.
StampAfter(t) == IF t = 0 THEN 1 ELSE 2

UpdateJobStatus_reset(j, s) ==
    [j EXCEPT !.status = s, !.completed_items = 0, !.failed_items = 0,
              !.completed_at = IF s \in Terminal THEN StampAfter(@) ELSE @]

\* UpdateJobStatus: SET #status = :status, with no condition, and also
\* completed_at = now when the status written is Completed or Failed.
UpdateJobStatus(j, s) ==
    [j EXCEPT !.status = s,
              !.completed_at = IF s \in Terminal THEN StampAfter(@) ELSE @]

\* UpdateJobProgress, success branch, the UpdateItem: completed_items + 1 and
\* list_append(results, :result) when the preceding GetItem saw a results
\* attribute, list_append(:empty_list, :result) when it did not.
ProgressSuccess(j, seen, r) ==
    [j EXCEPT !.completed_items = @ + 1,
              !.results = IF seen THEN Append(@, r) ELSE <<r>>,
              !.hasResults = TRUE]

\* UpdateJobProgress, success branch, when MarshalMap(result) returns an
\* error: the "count only" UpdateItem, completed_items + 1.
ProgressCountOnly(j) == [j EXCEPT !.completed_items = @ + 1]

ProgressFailure_appends(j) ==
    [j EXCEPT !.failed_items = @ + 1, !.results = Append(@, 0)]

ProgressFailure_lowersTotal(j) ==
    [j EXCEPT !.failed_items = @ + 1, !.total_items = @ - 1]

\* UpdateJobProgress, failure branch: failed_items + 1.
ProgressFailure(j) == [j EXCEPT !.failed_items = @ + 1]

Converged_started(j) == j.completed_items + j.failed_items >= 1

Converged(j) == j.completed_items + j.failed_items >= j.total_items

\* "Determine final status" of the worker and of HandleJobStatus.
FinalStatus(j) ==
    IF j.failed_items > 0 /\ j.failed_items = j.total_items
    THEN JobStatusFailed ELSE JobStatusCompleted

WorkerFinalizes_anyTime(j) == j.status \notin Terminal

\* The worker's test before it finalizes.
WorkerFinalizes(j) == Converged(j) /\ j.status \notin Terminal

ForceFinalizes_always(j, force) == force /\ j.status = JobStatusProcessing

\* HandleJobStatus' test before it forces completion.
ForceFinalizes(j, force) ==
    force /\ j.status = JobStatusProcessing /\ Converged(j)

\* ------------------------------------------------------------------------
\* Initial state
\* ------------------------------------------------------------------------
IdleWorker == [pc |-> "idle", outcome |-> "none", path |-> "none",
               seen |-> FALSE, enc |-> TRUE, newStatus |-> "none"]
IdleApi == [pc |-> "idle", route |-> "none", force |-> FALSE,
            newStatus |-> "none", code |-> 0, status |-> "none",
            results |-> FALSE, body |-> << >>]

\* pollForJobResults before its first request.  attempt, noProgressCounter
\* and lastCompletedItems are its loop variables; out is what it returns;
\* sawStuck, stuckPolls, sawTerminal, forced and final record what its
\* requests observed (stuckPolls: the polls that saw status processing with
\* completed_items + failed_items >= total_items).
IdleCli == [pc |-> "poll", attempt |-> 0, noProgressCounter |-> 0,
            lastCompletedItems |-> 0, newStatus |-> "none", results |-> FALSE,
            out |-> "none", sawStuck |-> FALSE, stuckPolls |-> 0,
            sawTerminal |-> FALSE, forced |-> FALSE, final |-> "none"]

\* A worker invocation before Handler has run.  analysis is the variable of
\* processS3Bucket that the Bedrock goroutine (g) shares with the function;
\* text and success are the arguments given to UpdateJobProgress; ret is how
\* the invocation ended.
IdleInv == [pc |-> "start", kind |-> "none", local |-> "", analysis |-> "",
            g |-> "none", gok |-> TRUE, timedOut |-> FALSE,
            success |-> FALSE, text |-> "none", ret |-> "none"]

Init ==
    /\ job = NoJob
    /\ req = NoReq
    /\ sub = [pc |-> "start", k |-> 0, code |-> 0, err |-> FALSE]
    /\ queue = {}
    /\ delivered = {}
    /\ worker = [w \in WorkerIds |-> IdleWorker]
    /\ dups = 0
    /\ api = IdleApi
    /\ early = FALSE
    /\ cli = IdleCli
    /\ inv = IdleInv

\* ------------------------------------------------------------------------
\* cmd/main.go: Handler (POST /analyze)
\* ------------------------------------------------------------------------

SubmitReject_afterCreate ==
    /\ sub.pc = "start"
    /\ \E r \in Requests :
        /\ (~r.valid \/ TotalResources(r) = 0)
        /\ req' = r
    /\ job' = CreateJob(0, TRUE)
    /\ sub' = [sub EXCEPT !.pc = "done", !.code = 400]
    /\ UNCHANGED <<inv, cli, queue, delivered, worker, dups, api, early>>

\* Parse and validate the body: 400 for an unparsable body or no resources.
SubmitReject ==
    /\ sub.pc = "start"
    /\ \E r \in Requests :
        /\ (~r.valid \/ TotalResources(r) = 0)
        /\ req' = r
    /\ sub' = [sub EXCEPT !.pc = "done", !.code = 400]
    /\ UNCHANGED <<inv, cli, job, queue, delivered, worker, dups, api, early>>

SubmitCreateFails_afterEnqueue ==
    /\ sub.pc = "start"
    /\ \E r \in Requests :
        /\ r.valid /\ TotalResources(r) > 0
        /\ req' = r
        /\ queue' = queue \cup {WorkItem(r, 0)}
    /\ sub' = [sub EXCEPT !.pc = "done", !.code = 500]
    /\ UNCHANGED <<inv, cli, job, delivered, worker, dups, api, early>>

\* A valid body, but LoadDefaultConfig or CreateJob returns an error: 500, and
\* no record was put.
SubmitCreateFails ==
    /\ sub.pc = "start"
    /\ \E r \in Requests :
        /\ r.valid /\ TotalResources(r) > 0
        /\ req' = r
    /\ sub' = [sub EXCEPT !.pc = "done", !.code = 500]
    /\ UNCHANGED <<inv, cli, job, queue, delivered, worker, dups, api, early>>

\* Parse, validate, CreateJob(resourceTypes, totalResources).
SubmitCreate ==
    /\ sub.pc = "start"
    /\ \E r \in Requests, w \in BOOLEAN :
        /\ r.valid /\ TotalResources(r) > 0
        /\ req' = r
        /\ job' = CreateJob(TotalResources(r), w)
    /\ sub' = [sub EXCEPT !.pc = "queue", !.k = 0]
    /\ UNCHANGED <<inv, cli, queue, delivered, worker, dups, api, early>>

SubmitQueue_abort ==
    /\ sub.pc = "queue"
    /\ sub.k < TotalResources(req)
    /\ \E sent \in BOOLEAN :
        /\ queue' = IF sent THEN queue \cup {WorkItem(req, sub.k)} ELSE queue
        /\ sub' = IF sent THEN [sub EXCEPT !.k = @ + 1]
                  ELSE [sub EXCEPT !.pc = "done", !.code = 500]
    /\ UNCHANGED <<inv, cli, job, req, delivered, worker, dups, api, early>>

\* One pass of the three queueing loops: QueueWorkItem for payload k.  A
\* SendMessage error is logged and the loop goes on.
SubmitQueue ==
    /\ sub.pc = "queue"
    /\ sub.k < TotalResources(req)
    /\ \E sent \in BOOLEAN :
        queue' = IF sent THEN queue \cup {WorkItem(req, sub.k)} ELSE queue
    /\ sub' = [sub EXCEPT !.k = @ + 1]
    /\ UNCHANGED <<inv, cli, job, req, delivered, worker, dups, api, early>>

\* After the loops: UpdateJobStatus(Processing), whose error (err) is logged
\* as "not critical", then the 202 response.
SubmitProcessing ==
    /\ sub.pc = "queue"
    /\ sub.k = TotalResources(req)
    /\ \E err \in BOOLEAN :
        /\ job' = IF err THEN job ELSE UpdateJobStatus(job, JobStatusProcessing)
        /\ sub' = [sub EXCEPT !.pc = "done", !.code = 202, !.err = err]
    /\ UNCHANGED <<inv, cli, req, queue, delivered, worker, dups, api, early>>

\* ------------------------------------------------------------------------
\* cmd/worker/main.go: Handler, processEC2Instance, processS3Bucket
\* ------------------------------------------------------------------------

\* How the calls an invocation makes for its work item went:
\*   "ok"             embedding and analysis returned a result
\*   "analysis_error" AnalyzeInstance returned an error (EC2); the local and
\*                    the Bedrock analysis both failed or timed out (S3)
\*   "embed_error"    json.Marshal or EmbedText returned an error, or the
\*                    embedding timed out
\* An item of another type is not analysed at all.
Outcomes(t) ==
    IF t \in {"ec2", "s3"} THEN {"ok", "analysis_error", "embed_error"}
    ELSE {"none"}

PathOf_analysisFails(t, o) ==
    CASE t \in {"ec2", "s3"} /\ o = "ok" -> "ok"
      [] t \in {"ec2", "s3"} /\ o # "ok" -> "fail"
      [] OTHER -> "dropped"

\* What an invocation does with its work item, by item type and outcome:
\*   "ok"       UpdateJobProgress(true, reportItem), then the completion check
\*   "fallback" EC2 analysis error: UpdateJobProgress(true, reportItem with
\*              the error text), then return
\*   "degraded" S3 analysis error: UpdateJobProgress(true, reportItem with a
\*              generic "failed to analyze" text), then the completion check
\*   "fail"     UpdateJobProgress(false, ReportItem{}), then return
\*   "dropped"  no case for the item type: nothing is recorded
PathOf(t, o) ==
    CASE t = "ec2" /\ o = "ok" -> "ok"
      [] t = "ec2" /\ o = "analysis_error" -> "fallback"
      [] t = "ec2" /\ o = "embed_error" -> "fail"
      [] t = "s3" /\ o = "ok" -> "ok"
      [] t = "s3" /\ o = "analysis_error" -> "degraded"
      [] t = "s3" /\ o = "embed_error" -> "fail"
      [] OTHER -> "dropped"

\* The arguments of the UpdateJobProgress call made on path p: success, and
\* what the ReportItem passed holds ("analysis", the "error" text, or
\* "empty" for ReportItem{}).
ProgressCall(p) ==
    CASE p = "ok" -> [success |-> TRUE, result |-> "analysis"]
      [] p \in {"fallback", "degraded"} -> [success |-> TRUE, result |-> "error"]
      [] p = "fail" -> [success |-> FALSE, result |-> "empty"]
      [] OTHER -> [success |-> FALSE, result |-> "none"]

\* The paths that run "Check if job is complete" after their recording.
ChecksCompletion(p) == p \in {"ok", "degraded"}

\* The first store call of an invocation for message m with outcome o, folded
\* into the step that starts it: the GetItem of UpdateJobProgress(true, ...),
\* or the UpdateItem of UpdateJobProgress(false, ...).
Started(m, d, o) ==
    LET p == PathOf(m.item_type, o)
        updates == ProgressCall(p).success
        fails == p = "fail"
    IN  /\ worker' = [worker EXCEPT ![<<m.item_index, d>>] =
            [pc |-> IF updates THEN "update" ELSE "done",
             outcome |-> o,
             path |-> p,
             seen |-> IF updates THEN job.hasResults ELSE FALSE,
             enc |-> TRUE,
             newStatus |-> "none"]]
        /\ job' = IF fails THEN ProgressFailure(job) ELSE job
        /\ early' = (early \/ (fails /\ sub.pc # "done"))

\* The queue delivers a message for the first time; Handler dispatches it,
\* the embedding and analysis calls return and UpdateJobProgress is entered.
Deliver(m) ==
    /\ m \in queue
    /\ queue' = queue \ {m}
    /\ delivered' = delivered \cup {m}
    /\ \E o \in Outcomes(m.item_type) : Started(m, 1, o)
    /\ UNCHANGED <<inv, cli, req, sub, dups, api>>

\* The queue (a standard SQS queue: at-least-once) delivers a message again.
Redeliver(m) ==
    /\ m \in delivered
    /\ dups < MaxRedeliveries
    /\ \E d \in Deliveries :
        /\ d > 1
        /\ worker[<<m.item_index, d>>].pc = "idle"
        /\ worker[<<m.item_index, d - 1>>].pc # "idle"
        /\ \E o \in Outcomes(m.item_type) : Started(m, d, o)
    /\ dups' = dups + 1
    /\ UNCHANGED <<inv, cli, req, sub, queue, delivered, api>>

\* UpdateJobProgress(success=true): MarshalMap(result) succeeds (enc) or not,
\* then the UpdateItem, after which the EC2 "fallback" path returns.
ProgressUpdateItem(w) ==
    /\ worker[w].pc = "update"
    /\ \E enc \in BOOLEAN :
        /\ job' = IF enc THEN ProgressSuccess(job, worker[w].seen, w[1])
                  ELSE ProgressCountOnly(job)
        /\ worker' = [worker EXCEPT ![w].pc =
                        IF ChecksCompletion(worker[w].path)
                        THEN "getjob" ELSE "done",
                      ![w].seen = FALSE,
                      ![w].enc = enc]
    /\ early' = (early \/ sub.pc # "done")
    /\ UNCHANGED <<inv, cli, req, sub, queue, delivered, dups, api>>

\* "Check if job is complete": GetJob and the test on what was read.
WorkerGetJob(w) ==
    /\ worker[w].pc = "getjob"
    /\ worker' = [worker EXCEPT ![w] =
        IF WorkerFinalizes(job)
        THEN [@ EXCEPT !.pc = "setstatus", !.newStatus = FinalStatus(job)]
        ELSE [@ EXCEPT !.pc = "done"]]
    /\ UNCHANGED <<inv, cli, job, req, sub, queue, delivered, dups, api, early>>

\* UpdateJobStatus(status) with the status determined from the read.
WorkerUpdateStatus(w) ==
    /\ worker[w].pc = "setstatus"
    /\ job' = UpdateJobStatus(job, worker[w].newStatus)
    /\ worker' = [worker EXCEPT ![w].pc = "done", ![w].newStatus = "none"]
    /\ UNCHANGED <<inv, cli, req, sub, queue, delivered, dups, api, early>>

\* ------------------------------------------------------------------------
\* cmd/main.go: HandleJobStatus (GET /jobs/{id}[?force_complete=true])
\* ------------------------------------------------------------------------

\* The status code of the response for the job record j read by GetJob and
\* the status st the handler holds when it answers.
ResponseCode(j, st) ==
    IF st \in Terminal THEN 200
    ELSE IF st = JobStatusProcessing /\ Converged(j) THEN 200
    ELSE 202

\* The bodies of the two 200 responses carry "results"; the 202 body does not.
ResponseHasResults(j, st) == ResponseCode(j, st) = 200

\* A request arrives: GetJob, 404 when there is no record.  Without a forced
\* completion the response follows from what was read.
StatusGetJob ==
    /\ api.pc = "idle"
    /\ \E force \in BOOLEAN :
        api' = IF ~job.exists
               THEN [pc |-> "respond", route |-> "status", force |-> force,
                     newStatus |-> "none",
                     code |-> 404, status |-> "none", results |-> FALSE,
                     body |-> << >>]
               ELSE IF ForceFinalizes(job, force)
               THEN [pc |-> "force", route |-> "status", force |-> force,
                     newStatus |-> FinalStatus(job),
                     code |-> ResponseCode(job, FinalStatus(job)),
                     status |-> FinalStatus(job),
                     results |-> ResponseHasResults(job, FinalStatus(job)),
                     body |-> << >>]
               ELSE [pc |-> "respond", route |-> "status", force |-> force,
                     newStatus |-> "none",
                     code |-> ResponseCode(job, job.status),
                     status |-> job.status,
                     results |-> ResponseHasResults(job, job.status),
                     body |-> << >>]
    /\ UNCHANGED <<inv, cli, job, req, sub, queue, delivered, worker, dups, early>>

StatusForce_noWrite ==
    /\ api.pc = "force"
    /\ api' = [api EXCEPT !.pc = "respond", !.newStatus = "none"]
    /\ UNCHANGED <<inv, cli, job, req, sub, queue, delivered, worker, dups, early>>

\* UpdateJobStatus(newStatus); the local job object takes the new status.
StatusForce ==
    /\ api.pc = "force"
    /\ job' = UpdateJobStatus(job, api.newStatus)
    /\ api' = [api EXCEPT !.pc = "respond", !.newStatus = "none"]
    /\ UNCHANGED <<inv, cli, req, sub, queue, delivered, worker, dups, early>>

ResultsGetJob_whenTerminal ==
    /\ api.pc = "idle"
    /\ api' = IF job.exists /\ job.status \in Terminal
              THEN [IdleApi EXCEPT !.pc = "respond", !.route = "results",
                                   !.code = 200, !.results = TRUE,
                                   !.body = job.results]
              ELSE [IdleApi EXCEPT !.pc = "respond", !.route = "results",
                                   !.code = 404]
    /\ UNCHANGED <<inv, cli, job, req, sub, queue, delivered, worker, dups, early>>

\* HandleJobResults (GET /jobs/{id}/results): GetJob, 404 when there is no
\* record, otherwise 200 with the results list that was read (body).
ResultsGetJob ==
    /\ api.pc = "idle"
    /\ api' = IF job.exists
              THEN [IdleApi EXCEPT !.pc = "respond", !.route = "results",
                                   !.code = 200, !.results = TRUE,
                                   !.body = job.results]
              ELSE [IdleApi EXCEPT !.pc = "respond", !.route = "results",
                                   !.code = 404]
    /\ UNCHANGED <<inv, cli, job, req, sub, queue, delivered, worker, dups, early>>

\* The response is returned to the client.
StatusRespond ==
    /\ api.pc = "respond"
    /\ api' = IdleApi
    /\ UNCHANGED <<inv, cli, job, req, sub, queue, delivered, worker, dups, early>>

\* ------------------------------------------------------------------------
\* cmd/cli/main.go: pollForJobResults, the client of GET /jobs/{id}
\* ------------------------------------------------------------------------
\* A request of the client is handled by HandleJobStatus: its GetJob is the
\* one access to the record, and what the client does with the response is
\* local to it, so both are one step.  The forced completion has a second
\* access, the handler's UpdateJobStatus, which is a step of its own.

\* End of one pass of the polling loop: sleep, attempt++, and the
\* poll-timeout error once attempt reaches maxPollRetry.
CliContinue(c) ==
    IF c.attempt + 1 >= maxPollRetry
    THEN [c EXCEPT !.attempt = @ + 1, !.pc = "done", !.out = "timeout"]
    ELSE [c EXCEPT !.attempt = @ + 1]

\* The response body carries a non-empty results list.
BodyHasReportItems(j, st) == ResponseHasResults(j, st) /\ Len(j.results) > 0

\* One pass of the polling loop on the response for the record j.
CliPolled(c, j) ==
    LET seen == [c EXCEPT
                  !.sawTerminal = @ \/ j.status \in Terminal,
                  !.sawStuck = @ \/ (j.status = JobStatusProcessing /\ Converged(j)),
                  !.stuckPolls = IF j.status = JobStatusProcessing /\ Converged(j)
                                 THEN @ + 1 ELSE @]
    IN  IF j.status \in Terminal /\ BodyHasReportItems(j, j.status)
        THEN [seen EXCEPT !.pc = "done", !.out = "results"]
        ELSE IF /\ BodyHasReportItems(j, j.status)
                /\ (j.completed_items = j.total_items \/ Converged(j))
        THEN [seen EXCEPT !.pc = "done", !.out = "results"]
        ELSE IF j.status = JobStatusProcessing
        THEN IF Converged(j)
             THEN IF seen.noProgressCounter + 1 >= 3
                  THEN [seen EXCEPT !.noProgressCounter = @ + 1, !.pc = "force"]
                  ELSE CliContinue([seen EXCEPT !.noProgressCounter = @ + 1])
             ELSE IF j.completed_items > seen.lastCompletedItems
                  THEN CliContinue([seen EXCEPT
                                     !.lastCompletedItems = j.completed_items,
                                     !.noProgressCounter = 0])
                  ELSE CliContinue(seen)
        ELSE [seen EXCEPT !.pc = "final"]

\* GET /jobs/{id}, once the submission has returned the job id.
CliPoll ==
    /\ sub.code = 202
    /\ cli.pc = "poll"
    /\ cli' = CliPolled(cli, job)
    /\ UNCHANGED <<inv, job, req, sub, queue, delivered, worker, dups, api, early>>

\* The status was not "processing": one more GET, whose results are returned,
\* or an empty result set.
CliFinalGet ==
    /\ cli.pc = "final"
    /\ cli' = [cli EXCEPT
                !.pc = "done",
                !.out = IF BodyHasReportItems(job, job.status)
                        THEN "results" ELSE "empty",
                !.sawTerminal = @ \/ job.status \in Terminal]
    /\ UNCHANGED <<inv, job, req, sub, queue, delivered, worker, dups, api, early>>

CliForceGet_pollsAgain ==
    /\ cli.pc = "force"
    /\ cli' = IF ForceFinalizes(job, TRUE)
              THEN [cli EXCEPT !.pc = "forcing", !.forced = TRUE,
                               !.newStatus = FinalStatus(job),
                               !.results = Len(job.results) > 0]
              ELSE [cli EXCEPT
                     !.pc = IF BodyHasReportItems(job, job.status)
                            THEN "done" ELSE "poll",
                     !.forced = TRUE,
                     !.final = job.status,
                     !.sawTerminal = @ \/ job.status \in Terminal,
                     !.out = IF BodyHasReportItems(job, job.status)
                             THEN "results" ELSE "none"]
    /\ UNCHANGED <<inv, job, req, sub, queue, delivered, worker, dups, api, early>>

\* GET /jobs/{id}?force_complete=true: the handler's GetJob.  When it does not
\* force, it answers from what it read and the client returns.
CliForceGet ==
    /\ cli.pc = "force"
    /\ cli' = IF ForceFinalizes(job, TRUE)
              THEN [cli EXCEPT !.pc = "forcing", !.forced = TRUE,
                               !.newStatus = FinalStatus(job),
                               !.results = Len(job.results) > 0]
              ELSE [cli EXCEPT
                     !.pc = "done", !.forced = TRUE,
                     !.final = job.status,
                     !.sawTerminal = @ \/ job.status \in Terminal,
                     !.out = IF BodyHasReportItems(job, job.status)
                             THEN "results" ELSE "empty"]
    /\ UNCHANGED <<inv, job, req, sub, queue, delivered, worker, dups, api, early>>

\* The handler's UpdateJobStatus(newStatus) and its 200 response with the
\* results it read; the client returns them, or an empty result set.
CliForceUpdate ==
    /\ cli.pc = "forcing"
    /\ job' = UpdateJobStatus(job, cli.newStatus)
    /\ cli' = [cli EXCEPT !.pc = "done",
                          !.final = cli.newStatus,
                          !.sawTerminal = TRUE,
                          !.out = IF cli.results THEN "results" ELSE "empty",
                          !.newStatus = "none",
                          !.results = FALSE]
    /\ UNCHANGED <<inv, req, sub, queue, delivered, worker, dups, api, early>>

\* ------------------------------------------------------------------------
\* cmd/worker/main.go: one invocation of Handler, step by step
\* ------------------------------------------------------------------------
\* The store is not followed here: what matters is which text reaches
\* UpdateJobProgress and how the invocation ends.

\* config.LoadDefaultConfig: an error is returned to the Lambda runtime.
HandlerLoadConfig ==
    /\ inv.pc = "start"
    /\ \E ok \in BOOLEAN :
        inv' = IF ok THEN [inv EXCEPT !.pc = "record"]
               ELSE [inv EXCEPT !.pc = "returned", !.ret = "error"]
    /\ UNCHANGED <<job, req, sub, queue, delivered, worker, dups, api, early, cli>>

\* The record of the batch: json.Unmarshal of its body and the switch on
\* item_type.  An unparsable body and an unknown type are logged.
HandlerRecord ==
    /\ inv.pc = "record"
    /\ \E kind \in {"unparsable", "ec2", "s3", "rds"} :
        inv' = [inv EXCEPT !.kind = kind,
                           !.pc = CASE kind = "ec2" -> "ec2"
                                    [] kind = "s3" -> "s3embed"
                                    [] OTHER -> "return"]
    /\ UNCHANGED <<job, req, sub, queue, delivered, worker, dups, api, early, cli>>

\* processEC2Instance up to its UpdateJobProgress call.
ProcessEC2 ==
    /\ inv.pc = "ec2"
    /\ \E o \in Outcomes("ec2") :
        inv' = [inv EXCEPT !.pc = "update",
                           !.success = ProgressCall(PathOf("ec2", o)).success,
                           !.text = ProgressCall(PathOf("ec2", o)).result]
    /\ UNCHANGED <<job, req, sub, queue, delivered, worker, dups, api, early, cli>>

\* processS3Bucket: json.Marshal and the embedding phase.  An error or the
\* 30-second timeout leads to UpdateJobProgress(false, ReportItem{}).
S3Embed ==
    /\ inv.pc = "s3embed"
    /\ \E ok \in BOOLEAN :
        inv' = IF ok THEN [inv EXCEPT !.pc = "s3local"]
               ELSE [inv EXCEPT !.pc = "update", !.success = FALSE,
                                !.text = "empty"]
    /\ UNCHANGED <<job, req, sub, queue, delivered, worker, dups, api, early, cli>>

\* The local analysis: its text (l), empty when it failed, is assigned to
\* analysis; when that is empty the Bedrock goroutine is started.
S3Local ==
    /\ inv.pc = "s3local"
    /\ \E l \in {"", "local"} :
        inv' = [inv EXCEPT !.local = l, !.analysis = l,
                           !.g = IF l = "" THEN "running" ELSE "none",
                           !.pc = IF l = "" THEN "select" ELSE "build"]
    /\ UNCHANGED <<job, req, sub, queue, delivered, worker, dups, api, early, cli>>

\* The goroutine: AnalyzeS3BucketWithBedrock returns and its two results are
\* assigned, the text (empty on an error) to analysis.
S3BedrockReturns ==
    /\ inv.g = "running"
    /\ \E ok \in BOOLEAN :
        inv' = [inv EXCEPT !.g = "assigned", !.gok = ok,
                           !.analysis = IF ok THEN "bedrock" ELSE ""]
    /\ UNCHANGED <<job, req, sub, queue, delivered, worker, dups, api, early, cli>>

\* The goroutine: analysisDone <- (analysisErr == nil).
S3BedrockSends ==
    /\ inv.g = "assigned"
    /\ inv' = [inv EXCEPT !.g = "sent"]
    /\ UNCHANGED <<job, req, sub, queue, delivered, worker, dups, api, early, cli>>

\* select, case success := <-analysisDone.
S3Receive ==
    /\ inv.pc = "select"
    /\ inv.g = "sent"
    /\ inv' = [inv EXCEPT !.pc = "build",
                          !.analysis = IF inv.gok THEN @
                                       ELSE IF inv.local # "" THEN inv.local
                                       ELSE "failed_text"]
    /\ UNCHANGED <<job, req, sub, queue, delivered, worker, dups, api, early, cli>>

\* select, case <-time.After(45 * time.Second): the fallback text is assigned
\* to analysis, wherever the goroutine is.
S3Timeout ==
    /\ inv.pc = "select"
    /\ inv' = [inv EXCEPT !.pc = "build", !.timedOut = TRUE,
                          !.analysis = IF inv.local # "" THEN inv.local
                                       ELSE "timeout_text"]
    /\ UNCHANGED <<job, req, sub, queue, delivered, worker, dups, api, early, cli>>

\* reportItem := pkg.ReportItem{..., Analysis: analysis}.
S3Build ==
    /\ inv.pc = "build"
    /\ inv' = [inv EXCEPT !.pc = "update", !.success = TRUE,
                          !.text = inv.analysis]
    /\ UNCHANGED <<job, req, sub, queue, delivered, worker, dups, api, early, cli>>

\* How an UpdateJobProgress call can end: it returns nil or an error, or,
\* in the success branch, its GetItem returns an error and a nil output,
\* which `getResult.Item` then dereferences.
ProgressEndings(success) ==
    IF success THEN {"nil", "error", "panic"} ELSE {"nil", "error"}

\* UpdateJobProgress ends.  An error it returns is logged; the rest of the
\* function (the completion check) logs its errors as well.
ProgressReturns ==
    /\ inv.pc = "update"
    /\ \E e \in ProgressEndings(inv.success) :
        inv' = IF e = "panic"
               THEN [inv EXCEPT !.pc = "returned", !.ret = "panic"]
               ELSE [inv EXCEPT !.pc = "return"]
    /\ UNCHANGED <<job, req, sub, queue, delivered, worker, dups, api, early, cli>>

\* End of the loop over the records: return nil.
HandlerReturn ==
    /\ inv.pc = "return"
    /\ inv' = [inv EXCEPT !.pc = "returned", !.ret = "nil"]
    /\ UNCHANGED <<job, req, sub, queue, delivered, worker, dups, api, early, cli>>

HandlerNext ==
    \/ HandlerLoadConfig
    \/ HandlerRecord
    \/ ProcessEC2
    \/ S3Embed
    \/ S3Local
    \/ S3BedrockReturns
    \/ S3BedrockSends
    \/ S3Receive
    \/ S3Timeout
    \/ S3Build
    \/ ProgressReturns
    \/ HandlerReturn

HandlerSpec == Init /\ [][HandlerNext]_vars

\* ------------------------------------------------------------------------
Messages ==
    {[job_id |-> NewJobId, item_index |-> i, item_type |-> t] :
        i \in Items, t \in {"ec2", "s3", "rds"}}

Submitter ==
    \/ SubmitReject
    \/ SubmitCreateFails
    \/ SubmitCreate
    \/ SubmitQueue
    \/ SubmitProcessing

Queue == \E m \in Messages : Deliver(m) \/ Redeliver(m)

WorkerStep(w) ==
    \/ ProgressUpdateItem(w)
    \/ WorkerGetJob(w)
    \/ WorkerUpdateStatus(w)

Workers == \E w \in WorkerIds : WorkerStep(w)

StatusRequests == StatusGetJob \/ StatusForce \/ StatusRespond

Next == Submitter \/ Queue \/ Workers \/ StatusRequests

Spec == Init /\ [][Next]_vars

\* The system with all three routes of the API: POST /analyze,
\* GET /jobs/{id} and GET /jobs/{id}/results.
ApiNext == Next \/ ResultsGetJob

ApiSpec == Init /\ [][ApiNext]_vars

\* The system with the CLI as the client of the job it submitted.
Client == CliPoll \/ CliFinalGet \/ CliForceGet \/ CliForceUpdate

CliNext == Submitter \/ Queue \/ Workers \/ Client

CliSpec == Init /\ [][CliNext]_vars

\* The Lambda runtime runs every invocation to its end, and the queue
\* delivers every message it holds; duplicate deliveries and new status
\* requests may or may not happen.
FairSpec ==
    /\ Spec
    /\ WF_vars(Submitter)
    /\ \A m \in Messages : WF_vars(Deliver(m))
    /\ \A w \in WorkerIds : WF_vars(WorkerStep(w))
    /\ WF_vars(StatusForce \/ StatusRespond)


\* ------------------------------------------------------------------------
\* Properties
\* ------------------------------------------------------------------------

\* The invocation w has completed its UpdateJobProgress call.
Recorded(w) ==
    /\ worker[w].path \in {"ok", "fallback", "degraded", "fail"}
    /\ worker[w].pc \in {"getjob", "setstatus", "done"}

RecordedSuccess(w) == Recorded(w) /\ ProgressCall(worker[w].path).success

\* ... and the result it passed was serialized and appended.
RecordedResult(w) == RecordedSuccess(w) /\ worker[w].enc
RecordedFailure(w) == Recorded(w) /\ worker[w].path = "fail"

\* Number of entries of results that are the result of item i.
ResultsOf(i) == Cardinality({k \in 1 .. Len(job.results) : job.results[k] = i})

AllWorkersDone == \A w \in WorkerIds : worker[w].pc \in {"idle", "done"}

JobItems == 0 .. (job.total_items - 1)

\* C1: once the stored status is Completed or Failed, no step changes it.
C1_TerminalStatusIsFinal ==
    [][(job.exists /\ job.status \in Terminal) => job'.status = job.status]_vars

\* C2: completed_items + failed_items never exceeds total_items.
C2_CountersWithinTotal ==
    job.exists => job.completed_items + job.failed_items <= job.total_items

\* Every payload of the accepted request is or was in the queue.
AllEnqueued ==
    /\ sub.code = 202
    /\ \A i \in JobItems : WorkItem(req, i) \in queue \cup delivered

\* C3: a job all of whose work items were enqueued eventually reaches
\* completed_items + failed_items = total_items.
C3_EventuallyConverges ==
    (<>AllEnqueued) =>
        <>(job.exists /\ job.completed_items + job.failed_items = job.total_items)

C5_StatusTransitions ==
    [][(job.exists /\ job'.status # job.status) =>
        \/ job.status = JobStatusPending /\ job'.status = JobStatusProcessing
        \/ job.status = JobStatusProcessing /\ job'.status \in Terminal]_vars

\* C6: completed_items and failed_items never decrease.
C6_CountersNonDecreasing ==
    [][job.exists =>
        /\ job'.completed_items >= job.completed_items
        /\ job'.failed_items >= job.failed_items]_vars

\* C6 witness: both counters were incremented and a terminal status was then
\* written, by a worker or by a forced completion.
C6_Witness ==
    /\ job.exists
    /\ job.completed_items >= 1
    /\ job.failed_items >= 1
    /\ job.status \in Terminal

\* C7: however often a work item is delivered, it is counted once and has
\* at most one entry in results.
C7_RecordingIdempotent ==
    job.exists =>
        /\ job.completed_items + job.failed_items
             = Cardinality({i \in Items : \E d \in Deliveries : Recorded(<<i, d>>)})
        /\ \A i \in Items : ResultsOf(i) <= 1

\* The job was moved to Processing, every item of it was delivered once and
\* its invocation has ended after recording an outcome.
AllRecordedOnce ==
    /\ sub.code = 202
    /\ ~sub.err
    /\ dups = 0
    /\ \A i \in JobItems : Recorded(<<i, 1>>) /\ worker[<<i, 1>>].pc = "done"

NSuccesses == Cardinality({i \in JobItems : RecordedResult(<<i, 1>>)})
NFailures == Cardinality({i \in JobItems : RecordedFailure(<<i, 1>>)})

\* C8: when the job is Processing before the first recording and every item
\* is recorded once as a success with a result, the job ends Completed with
\* completed_items = N, failed_items = 0 and N results.
C8_ScenarioA ==
    (AllRecordedOnce /\ ~early /\ NSuccesses = job.total_items) =>
        /\ job.status = JobStatusCompleted
        /\ job.completed_items = job.total_items
        /\ job.failed_items = 0
        /\ Len(job.results) = job.total_items

\* C9: when every item is recorded once, with at least one success and one
\* failure, the job becomes Completed with one result per success.
C9_ScenarioB ==
    [](dups = 0) =>
        ((AllRecordedOnce /\ NSuccesses >= 1 /\ NFailures >= 1) ~>
            (/\ job.exists
             /\ job.status = JobStatusCompleted
             /\ Len(job.results) = NSuccesses))

\* C10: when every item is recorded once and as a failure, the job becomes
\* Failed with no results.
C10_ScenarioC ==
    [](dups = 0) =>
        ((AllRecordedOnce /\ NFailures = job.total_items) ~>
            (/\ job.exists
             /\ job.status = JobStatusFailed
             /\ Len(job.results) = 0))

\* C11: a force_complete request on a job that has not converged changes
\* nothing: no step of HandleJobStatus taken while completed_items +
\* failed_items < total_items changes status, counters or results.
C11_ForceCompleteNoOp ==
    [][(job.exists /\ ~Converged(job) /\ StatusRequests) => job' = job]_vars

\* C11 witness: a force_complete request was answered for a job that has not
\* converged.
C11_Witness ==
    /\ job.exists
    /\ ~Converged(job)
    /\ api.pc = "respond"
    /\ api.force

\* The work items the Submitter's SendMessage calls put in the queue.
Enqueued == queue \cup delivered

\* Payloads the Submitter has offered to the queue whose SendMessage failed.
Skipped == {i \in 0 .. (sub.k - 1) : WorkItem(req, i) \notin Enqueued}

\* C14: after Submit has returned, the items that failed to enqueue are
\* corrected for, by a lower total_items or by counting them in failed_items:
\* total_items minus the failures no worker recorded equals the number of
\* items enqueued.
C14_EnqueueFailuresCorrected ==
    sub.code = 202 =>
        job.total_items
            - (job.failed_items - Cardinality({w \in WorkerIds : RecordedFailure(w)}))
          = Cardinality(Enqueued)

\* C15: one failed SendMessage does not abort the batch: from the queueing
\* loops the Submitter only goes on to the next payload, or, after the last
\* payload, issues UpdateJobStatus(Processing) (the status is Processing
\* unless the store returned an error) and answers 202.
C15_EnqueueFailureSkipsItem ==
    [][(sub.pc = "queue" /\ sub' # sub) =>
        \/ /\ sub.k < TotalResources(req)
           /\ sub' = [sub EXCEPT !.k = sub.k + 1]
        \/ /\ sub.k = TotalResources(req)
           /\ sub'.pc = "done" /\ sub'.code = 202 /\ sub'.k = sub.k
           /\ (job'.status = JobStatusProcessing \/ sub'.err)]_vars

\* C15 witness: the request was answered 202 although a SendMessage failed,
\* and another payload of it was enqueued.
C15_Witness ==
    /\ sub.code = 202
    /\ Skipped # {}
    /\ Enqueued # {}

\* Position of an item type in the order of the Submitter's three loops.
GroupRank(t) == CASE t = "ec2" -> 0 [] t = "s3" -> 1 [] OTHER -> 2

C20_RejectedSubmissionHasNoEffect ==
    (sub.pc = "done" /\ sub.code # 202) =>
        /\ Enqueued = {}
        /\ job = NoJob

\* C20 witness: a submission was answered 500.
C20_Witness == sub.pc = "done" /\ sub.code = 500

\* C16: an invocation that has ended for a work item the Submitter enqueued
\* has called UpdateJobProgress for it.
C16_EveryInvocationRecords ==
    \A w \in WorkerIds : worker[w].pc = "done" => Recorded(w)

\* C17: when UpdateJobProgress(success=true, result) cannot serialize the
\* result, its store update adds one to failed_items and leaves
\* completed_items and results as they were.
C17_EncodingErrorCountsAsFailed ==
    [][\A w \in WorkerIds :
        (worker[w].pc = "update" /\ worker'[w].pc # "update" /\ ~worker'[w].enc) =>
            /\ job'.failed_items = job.failed_items + 1
            /\ job'.completed_items = job.completed_items
            /\ job'.results = job.results]_vars

\* C19: a GET /jobs/{id} (for an unknown id, or for a job whose id the
\* submission has returned) answers 404 when there is no record, 200 with
\* results when the record read is terminal or has completed_items +
\* failed_items >= total_items, and 202 without results otherwise.
C19_StatusResponse ==
    [][(/\ api.pc = "idle" /\ api'.pc = "respond" /\ ~api'.force
        /\ (job.exists => sub.pc = "done")) =>
        IF ~job.exists
        THEN api'.code = 404
        ELSE IF job.status \in Terminal \/ Converged(job)
        THEN api'.code = 200 /\ api'.results
        ELSE api'.code = 202 /\ ~api'.results]_vars

\* The job has converged with status Processing and nothing is left that
\* would change it: no message is queued and no invocation is running.
StaysStuck ==
    /\ job.status = JobStatusProcessing
    /\ Converged(job)
    /\ queue = {}
    /\ AllWorkersDone

\* C12: when the client's polls observe the job converged with status
\* Processing and the status stays so, the client sends force_complete=true
\* on its third such poll and returns on that call with a terminal status; it
\* returns without forcing only when its attempts ran out before the third.
C12_ScenarioD ==
    (cli.pc = "done" /\ cli.sawStuck) =>
        /\ cli.forced =>
            /\ cli.noProgressCounter = 3
            /\ cli.final \in Terminal
            /\ cli.out \in {"results", "empty"}
        /\ (~cli.forced /\ StaysStuck) =>
            (cli.out = "timeout" /\ cli.noProgressCounter < 3)

\* C13: pollForJobResults makes at most maxPollRetry polling iterations, and
\* when none of its requests observed a terminal status it returns the
\* poll-timeout error.
C13_PollTerminates ==
    /\ cli.attempt <= maxPollRetry
    /\ (cli.pc = "done" /\ ~cli.sawTerminal) => cli.out = "timeout"

\* C21: a terminal status is written only by a worker or a forced completion
\* that has just read the job with completed_items + failed_items >=
\* total_items and status Processing, and the status chosen is Failed exactly
\* when the failed_items read equals total_items, Completed otherwise.
C21_FinalizationRule ==
    [][/\ \A w \in WorkerIds :
            (worker[w].pc = "getjob" /\ worker'[w].pc = "setstatus") =>
                /\ Converged(job)
                /\ job.status = JobStatusProcessing
                /\ worker'[w].newStatus =
                     IF job.failed_items = job.total_items
                     THEN JobStatusFailed ELSE JobStatusCompleted
       /\ (api.pc = "idle" /\ api'.pc = "force") =>
                /\ Converged(job)
                /\ job.status = JobStatusProcessing
                /\ api'.newStatus =
                     IF job.failed_items = job.total_items
                     THEN JobStatusFailed ELSE JobStatusCompleted
       /\ (job.exists /\ job'.status \in Terminal /\ job'.status # job.status) =>
                \/ \E w \in WorkerIds : worker[w].pc = "setstatus"
                \/ api.pc = "force"]_vars


\* C22: after every recording, whether a success, a success with an
\* error-annotated fallback result or a failure, the worker goes on to
\* re-read the job and run the convergence check.
C22_CheckAfterEveryRecording ==
    [][\A w \in WorkerIds :
        (~Recorded(w) /\ Recorded(w)') => worker'[w].pc = "getjob"]_vars

\* C23: every item type the Submitter enqueues is dispatched to a path that
\* records an outcome: no invocation for an enqueued work item takes the
\* unknown-type branch.
C23_EveryTypeDispatched ==
    \A w \in WorkerIds : worker[w].pc # "idle" => worker[w].path # "dropped"


\* The UpdateJobProgress call of the invocation w.
CallOf(w) == ProgressCall(worker[w].path)

\* C24: for EC2 and S3 items alike, an analysis that succeeded is recorded
\* with success = true and its result, an analysis error for which a
\* fallback result exists with success = true and an error-annotated result,
\* and an error with no fallback (marshalling, embedding) with success =
\* false and no result; the counter that has moved is the one of the call.
C24_RecordingPolicy ==
    /\ \A w \in WorkerIds :
        (worker[w].pc # "idle" /\ worker[w].outcome # "none") =>
            /\ worker[w].outcome = "ok" =>
                    CallOf(w) = [success |-> TRUE, result |-> "analysis"]
            /\ worker[w].outcome = "analysis_error" =>
                    CallOf(w) = [success |-> TRUE, result |-> "error"]
            /\ worker[w].outcome = "embed_error" =>
                    CallOf(w) = [success |-> FALSE, result |-> "empty"]
    /\ job.exists =>
        /\ job.completed_items =
             Cardinality({w \in WorkerIds :
                /\ worker[w].outcome \in {"ok", "analysis_error"}
                /\ worker[w].pc \in {"getjob", "setstatus", "done"}})
        /\ job.failed_items =
             Cardinality({w \in WorkerIds :
                /\ worker[w].outcome = "embed_error"
                /\ worker[w].pc \in {"getjob", "setstatus", "done"}})

\* C24 witness: an EC2 analysis error and an S3 embedding error have both been
\* recorded.
C24_Witness ==
    \E v, w \in WorkerIds :
        /\ worker[v].path = "fallback" /\ worker[v].outcome = "analysis_error"
        /\ worker[v].pc = "done"
        /\ worker[w].path = "fail" /\ worker[w].outcome = "embed_error"
        /\ ItemTypeOf(req, w[1]) = "s3"
        /\ worker[w].pc = "done"


\* s is an initial part of t.
IsPrefix(s, t) == Len(s) <= Len(t) /\ SubSeq(t, 1, Len(s)) = s

C27_ProcessingAfterFirstEnqueue ==
    [][(/\ sub.pc = "queue"
        /\ Enqueued # {}
        /\ sub.k < TotalResources(req)
        /\ sub'.k = sub.k + 1) => job.status # JobStatusPending]_vars

C29_CreateJobAndNotFound ==
    [][/\ (~job.exists /\ job'.exists) =>
            /\ job'.job_id = NewJobId
            /\ job'.status = JobStatusPending
            /\ job'.total_items = TotalResources(req')
            /\ job'.total_items > 0
            /\ job'.completed_items = 0
            /\ job'.failed_items = 0
            /\ job'.results = << >>
       /\ (api.pc = "idle" /\ api'.pc # "idle" /\ ~job.exists) =>
            /\ api'.pc = "respond"
            /\ api'.code = 404
            /\ job' = job]_vars

\* C29 witness: a request for the id was answered "job not found", and the
\* job has then been created.
C29_Witness ==
    /\ api.pc = "respond" /\ api.code = 404
    /\ job.exists
    /\ sub.pc = "queue" /\ sub.k = 0

\* C30: total_items and job_id of a job never change after CreateJob.
C30_TotalAndIdFixed ==
    [][job.exists =>
        /\ job'.exists
        /\ job'.total_items = job.total_items
        /\ job'.job_id = job.job_id]_vars

\* C30 witness: the Submitter has written Processing, successes and failures
\* were recorded and a forced completion has written the terminal status.
C30_Witness ==
    /\ sub.code = 202 /\ ~sub.err
    /\ job.exists /\ job.status \in Terminal
    /\ job.completed_items >= 1 /\ job.failed_items >= 1
    /\ api.pc = "respond" /\ api.force
    /\ \A w \in WorkerIds : ~ChecksCompletion(worker[w].path)


\* C31: a poll response whose status is not terminal and whose counters have
\* not converged, status pending included, makes pollForJobResults poll
\* again (or give up with the poll-timeout error): it leaves its polling loop
\* without error only on a response that is terminal or converged.
C31_PollsUntilTerminalOrConverged ==
    [][(/\ cli.pc = "poll" /\ cli' # cli
        /\ job.status \notin Terminal /\ ~Converged(job)) =>
            \/ cli'.pc = "poll"
            \/ cli'.pc = "done" /\ cli'.out = "timeout"]_vars

\* C32: a job whose status is Completed or Failed has completed_items +
\* failed_items >= total_items.
C32_TerminalImpliesConverged ==
    (job.exists /\ job.status \in Terminal) => Converged(job)

\* C32 witness: a job was finalized as Failed with every item failed.
C32_Witness ==
    /\ job.exists
    /\ job.status = JobStatusFailed
    /\ job.failed_items = job.total_items

\* C33: results never has more entries than completed_items counts, and a
\* step that makes results longer also adds one to completed_items.
C33_ResultsWithinCompleted ==
    /\ [](job.exists => Len(job.results) <= job.completed_items)
    /\ [][(job.exists /\ Len(job'.results) > Len(job.results)) =>
            /\ job'.completed_items = job.completed_items + 1
            /\ job'.failed_items = job.failed_items]_vars

\* C33 witness: a failure was recorded, and a success whose result is not in
\* results.
C33_Witness ==
    /\ job.exists
    /\ job.failed_items >= 1
    /\ Len(job.results) >= 1
    /\ job.completed_items > Len(job.results)

\* No work item has been recorded by more than one invocation.
AtMostOnce ==
    \A i \in Items : Cardinality({d \in Deliveries : Recorded(<<i, d>>)}) <= 1

\* C34: as long as no work item is recorded twice, the counters and results
\* of a job whose status is Completed or Failed do not change.
C34_FrozenAfterTerminal ==
    [][(job.exists /\ job.status \in Terminal /\ AtMostOnce') =>
        /\ job'.completed_items = job.completed_items
        /\ job'.failed_items = job.failed_items
        /\ job'.results = job.results]_vars

\* C34 witness: a two-item job is terminal, each item recorded once, while the
\* invocation of a duplicate delivery is about to record.
C34_Witness ==
    /\ job.exists /\ job.status \in Terminal
    /\ job.total_items = 2
    /\ AtMostOnce
    /\ \E w \in WorkerIds : worker[w].pc = "update"


\* C35: one call of pollForJobResults sends at most one force_complete
\* request, and only after at least 3 of its polls saw status processing with
\* completed_items + failed_items >= total_items; it returns on that request
\* without polling again, with the results when the response is 200 with a
\* non-empty results list and with an empty result set, and no error,
\* otherwise.
C35_ForceOnceAfterThreePolls ==
    [][/\ (cli.pc # "force" /\ cli'.pc = "force") =>
            /\ cli.pc = "poll"
            /\ ~cli.forced
            /\ cli'.stuckPolls >= 3
       /\ (cli.pc = "force" /\ cli' # cli) =>
            /\ cli'.forced
            /\ \/ /\ cli'.pc = "forcing"
                  /\ job.status = JobStatusProcessing /\ Converged(job)
               \/ /\ cli'.pc = "done"
                  /\ cli'.out = IF ResponseCode(job, job.status) = 200
                                   /\ Len(job.results) > 0
                                THEN "results" ELSE "empty"
       /\ (cli.pc = "forcing" /\ cli' # cli) =>
            /\ cli'.pc = "done"
            /\ cli'.out = IF cli.results THEN "results" ELSE "empty"
       /\ (cli.forced /\ cli.pc = "done") => cli' = cli]_vars

\* C35 witness: the client has returned an empty result set after a forced
\* completion that made the job Failed.
C35_Witness ==
    /\ cli.pc = "done" /\ cli.forced
    /\ cli.out = "empty"
    /\ cli.final = JobStatusFailed
    /\ cli.stuckPolls = 3


\* C40: the job record is stored before any of its work items is offered to
\* the queue: every message that is or was in the queue carries the job_id of
\* a job the store holds, and while the Submitter has not run CreateJob the
\* queue has seen no message.
C40_JobStoredBeforeEnqueue ==
    /\ \A m \in queue \cup delivered : job.exists /\ m.job_id = job.job_id
    /\ sub.pc = "start" => queue \cup delivered = {}

\* C40 witness: the Submitter is in its queueing loops, one message is in the
\* queue and another was delivered.
C40_Witness ==
    /\ sub.pc = "queue"
    /\ queue # {}
    /\ delivered # {}


\* C39: GET /jobs/{id} without force_complete and GET /jobs/{id}/results
\* change no field of the job record, and GET /jobs/{id}/results answers 200
\* with the results the job holds, whatever its status (404 when there is no
\* record).
C39_ReadOnlyRequests ==
    [][/\ (api' # api /\ ~api.force /\ ~api'.force) => job' = job
       /\ (api.pc = "idle" /\ api'.route = "results") =>
            /\ api'.pc = "respond"
            /\ IF job.exists
               THEN api'.code = 200 /\ api'.body = job.results
               ELSE api'.code = 404]_vars

\* C39 witness: GET /jobs/{id}/results is answering with a result of a job
\* whose status is still pending.
C39_Witness ==
    /\ api.pc = "respond" /\ api.route = "results"
    /\ api.code = 200
    /\ Len(api.body) >= 1
    /\ job.status = JobStatusPending


\* C38: completed_at is stamped at most once: once a status write has set
\* it, no later step gives it another value.
C38_CompletedAtStampedOnce ==
    [][(job.exists /\ job.completed_at # 0) =>
            job'.completed_at = job.completed_at]_vars


\* C36: once the AWS configuration has loaded, the worker Handler returns
\* nil whatever happens to the record, so that the queue is never asked to
\* deliver the message again.
C36_HandlerReturnsNil ==
    (inv.pc = "returned" /\ inv.kind # "none") => inv.ret = "nil"

\* C37: when the 45-second wait for the Bedrock analysis timed out, the text
\* given to UpdateJobProgress is the fallback text the timeout branch chose.
C37_TimeoutTextRecorded ==
    (inv.timedOut /\ inv.pc \in {"update", "return", "returned"}) =>
        inv.text = IF inv.local # "" THEN inv.local ELSE "timeout_text"


=============================================================================
